---- MODULE Spec2Model ----
(***************************************************************************)
(* pushback (src/pushback.py): the remote directory resolution of          *)
(* backup_to_server, the collision policy of handle_collision and the      *)
(* target loop of main, main's validation of the settings, the scratch    *)
(* pattern files, the large-file walk and the time suffix.                *)
(*                                                                         *)
(* Names are TLA+ strings, handled the way the Python code handles them:   *)
(* concatenation, startswith, slicing, strip and lower.  The remote side   *)
(* (ssh, ls, rsync) is the environment: a server is a record holding the   *)
(* directory names under its base, whether the base check answers OK, the  *)
(* collation its `ls` sorts with, and its configured port string.  The     *)
(* remote is taken to be stable while one target's cycle runs.             *)
(***************************************************************************)
EXTENDS Integers, Sequences, FiniteSets, TLC

VARIABLES
    args,              \* parsed command line: the force flags
    project_info,      \* folder_name, suffix, snapshot_mode, custom hours, time_suffix
    selected_servers,  \* sequence of server names, in selection order
    remote,            \* server name -> state of that remote
    tick,              \* the clock: index of the current instant
    pc,                \* position of main: "idle", "loop", "done"
    idx,               \* index in selected_servers of the next target
    successes,         \* main's successes list
    failures,          \* main's failures list
    overall_success,   \* main's overall_success flag
    cycles,            \* this run's calls of backup_to_server, in order
    prev,              \* the previous run's cycles
    summary,           \* the lines of the final summary printed by main
    rc,                \* main's exit status; -1 while running
    runs_left,         \* invocations of main still to come
    options,           \* the merged settings (DEFAULTS, config file, BK_* environment)
                       \* and what the scratch-file step meets
    cli,               \* args.snapshot_custom_hours: given or None, and its value
    scanned,           \* the large-file walk of the project tree ran in this run
    temp_files,        \* the scratch pattern files that exist
    created,           \* calls of create_rsync_files in this run
    suffix_calls,      \* the custom_hours of each call of get_time_suffix in this run
    walk,              \* the large-file walk taken on its own
    probe              \* get_time_suffix applied to two instants

vars == <<args, project_info, selected_servers, remote, tick, pc, idx,
          successes, failures, overall_success, cycles, prev, summary, rc, runs_left,
          options, cli, scanned, temp_files, created, suffix_calls, walk, probe>>

---------------------------------------------------------------------------
(* Bounds of the model *)

MaxDirs == 2        \* directories initially present under a remote base
MaxTick == 1        \* instants 0..MaxTick at which an invocation may start
MaxRuns == 2        \* invocations of main
MaxTargets == 2     \* configured servers
MaxInterval == 7    \* custom intervals 1..MaxInterval hours given to get_time_suffix
MaxProbeHours == 13 \* the probed instants lie in the hours 0..MaxProbeHours after Now(0)

---------------------------------------------------------------------------
(* Strings *)

\* str.startswith
StartsWith(s, p) == Len(s) >= Len(p) /\ SubSeq(s, 1, Len(p)) = p

CharAt(s, i) == SubSeq(s, i, i)

Digit(d) == CharAt("0123456789", d + 1)

\* str(n) / f"{n}" for n >= 0
RECURSIVE Str(_)
Str(n) == IF n < 10 THEN Digit(n) ELSE Str(n \div 10) \o Digit(n % 10)

\* f"{n:02d}" for n >= 0
Pad2(n) == IF n < 10 THEN "0" \o Digit(n) ELSE Str(n)

UpperChars == "ABCDEFGHIJKLMNOPQRSTUVWXYZ"
LowerChars == "abcdefghijklmnopqrstuvwxyz"

\* the one-character strings of alphabet
CharsOf(alphabet) == {CharAt(alphabet, i) : i \in 1..Len(alphabet)}

\* one-character string -> its position in alphabet
PositionsIn(alphabet) ==
    [c \in CharsOf(alphabet) |-> CHOOSE i \in 1..Len(alphabet) : CharAt(alphabet, i) = c]

UpperPosition == PositionsIn(UpperChars)

LowerChar(c) == IF c \in DOMAIN UpperPosition THEN CharAt(LowerChars, UpperPosition[c]) ELSE c

\* str.lower
RECURSIVE Lower(_)
Lower(s) == IF s = "" THEN "" ELSE LowerChar(CharAt(s, 1)) \o Lower(SubSeq(s, 2, Len(s)))

\* str.strip (the whitespace that occurs in the modelled answers is the blank)
RECURSIVE LStrip(_)
LStrip(s) == IF s # "" /\ CharAt(s, 1) = " " THEN LStrip(SubSeq(s, 2, Len(s))) ELSE s
RECURSIVE RStrip(_)
RStrip(s) == IF s # "" /\ CharAt(s, Len(s)) = " " THEN RStrip(SubSeq(s, 1, Len(s) - 1)) ELSE s
Strip(s) == RStrip(LStrip(s))

\* the characters that occur in directory names, in ASCII order
AsciiChars == "-0123456789ABCDEFGHIJKLMNOPQRSTUVWXYZ_abcdefghijklmnopqrstuvwxyz"
AsciiPosition == PositionsIn(AsciiChars)
Code(c) == AsciiPosition[c]

\* the sort key of a character: "C" compares byte values, "folded" compares
\* without regard to case (a UTF-8 locale)
Key(collation, c) == IF collation = "C" THEN Code(c) ELSE Code(LowerChar(c))

\* s < t, comparing the keys character by character from position i on
RECURSIVE LessFrom(_, _, _, _)
LessFrom(collation, s, t, i) ==
    IF i > Len(t) THEN FALSE
    ELSE IF i > Len(s) THEN TRUE
    ELSE LET a == Key(collation, CharAt(s, i))
             b == Key(collation, CharAt(t, i))
         IN  IF a # b THEN a < b ELSE LessFrom(collation, s, t, i + 1)

LessBy(collation, s, t) == LessFrom(collation, s, t, 1)

\* total order: ties of the folded comparison are broken by byte value
Before(collation, s, t) ==
    \/ LessBy(collation, s, t)
    \/ ~LessBy(collation, t, s) /\ LessBy("C", s, t)

\* the names of S as a sequence sorted by the collation
RECURSIVE SortBy(_, _)
SortBy(collation, S) ==
    IF S = {} THEN <<>>
    ELSE LET first == CHOOSE x \in S : \A y \in S \ {x} : Before(collation, x, y)
         IN  <<first>> \o SortBy(collation, S \ {first})

Last(q) == q[Len(q)]

SeqToSet(q) == {q[i] : i \in 1..Len(q)}

\* [x for x in q if Test(x)]
RECURSIVE SelectNames(_, _, _)
SelectNames(q, keep, i) ==
    IF i > Len(q) THEN <<>>
    ELSE (IF q[i] \in keep THEN <<q[i]>> ELSE <<>>) \o SelectNames(q, keep, i + 1)

---------------------------------------------------------------------------
(* The clock and get_time_suffix *)

\* datetime.now() at instant k: 2025-01-14 20:00 UTC and every five hours after
\* it (hours since the epoch 482468 + 5k), with the calendar of January 2025
Now(k) ==
    LET h == 482468 + 5 * k
        day == (h \div 24) - 20089 + 1
    IN  [year |-> 2025, month |-> 1, day |-> day, hour |-> h % 24,
         iso_year |-> 2025, iso_week |-> ((day + 1) \div 7) + 1,
         timestamp |-> h * 3600]

valid_modes == <<"none", "yearly", "monthly", "weekly", "daily", "hourly", "custom">>

Modes == SeqToSet(valid_modes)

get_time_suffix_day_aligned(mode, custom_hours, now) ==
    "_I" \o Str(((now.timestamp \div 3600) % 24) \div custom_hours)

get_time_suffix(mode, custom_hours, now) ==
    IF mode = "none" THEN ""
    ELSE IF mode = "yearly" THEN "_" \o Str(now.year)
    ELSE IF mode = "monthly" THEN "_" \o Str(now.year) \o "-" \o Pad2(now.month)
    ELSE IF mode = "weekly" THEN "_" \o Str(now.iso_year) \o "W" \o Pad2(now.iso_week)
    ELSE IF mode = "daily" THEN
        "_" \o Str(now.year) \o "-" \o Pad2(now.month) \o "-" \o Pad2(now.day)
    ELSE IF mode = "hourly" THEN
        "_" \o Str(now.year) \o "-" \o Pad2(now.month) \o "-" \o Pad2(now.day)
            \o "H" \o Pad2(now.hour)
    ELSE IF mode = "custom" THEN
        LET hours_since_epoch == now.timestamp \div 3600
            interval_number == hours_since_epoch \div custom_hours
        IN  "_I" \o Str(interval_number)
    ELSE ""

---------------------------------------------------------------------------
(* The remote side *)

\* `ls -1 <base>`: every entry under the base, in the order the remote's ls prints
\* (a listing that fails, here a base that cannot be read, gives [])
ssh_list_all(srv) == IF srv.readable THEN SortBy(srv.collation, srv.dirs) ELSE <<>>

\* `ls -1d <base>/<prefix>_* | xargs -n1 basename`
ssh_list_siblings(srv, prefix) ==
    IF srv.readable
    THEN SortBy(srv.collation, {d \in srv.dirs : StartsWith(d, prefix \o "_")})
    ELSE <<>>

\* `test -d`: rel = "." is the remote base itself, any other rel a directory under it
ssh_test_dir_only_base(srv, rel) == srv.base_ok /\ rel = "."

ssh_test_dir_ignores_base(srv, rel) == rel = "." \/ rel \in srv.dirs

ssh_test_dir(srv, rel) ==
    IF rel = "." THEN srv.base_ok ELSE srv.base_ok /\ rel \in srv.dirs

\* int(s) succeeds
IntOk(s) ==
    LET t == Strip(s)
    IN  t # "" /\ \A i \in 1..Len(t) : CharAt(t, i) \in CharsOf("0123456789")

\* the value of a string of decimal digits
RECURSIVE DigitsValue(_)
DigitsValue(t) ==
    IF t = "" THEN 0
    ELSE 10 * DigitsValue(SubSeq(t, 1, Len(t) - 1))
         + (CHOOSE d \in 0..9 : Digit(d) = CharAt(t, Len(t)))

\* int(s) of a string: whether it succeeds, and its value
ParseInt(s) ==
    LET t == Strip(s)
        signed == t # "" /\ CharAt(t, 1) \in {"-", "+"}
        digits == IF signed THEN SubSeq(t, 2, Len(t)) ELSE t
    IN  IF IntOk(digits) /\ Strip(digits) = digits
        THEN [ok |-> TRUE,
              value |-> IF signed /\ CharAt(t, 1) = "-" THEN 0 - DigitsValue(digits)
                        ELSE DigitsValue(digits)]
        ELSE [ok |-> FALSE, value |-> 0]

---------------------------------------------------------------------------
(* find_existing_snapshot and handle_collision *)

\* the first sibling of q, from position i on, that starts with target and, when
\* longer is set, is longer than it; "" stands for None
RECURSIVE FirstMatch(_, _, _, _)
FirstMatch(q, target, longer, i) ==
    IF i > Len(q) THEN ""
    ELSE IF StartsWith(q[i], target) /\ (~longer \/ Len(q[i]) > Len(target)) THEN q[i]
    ELSE FirstMatch(q, target, longer, i + 1)

find_existing_snapshot_any_bucket(siblings, base_name, time_suffix) ==
    FirstMatch(siblings, base_name, FALSE, 1)

find_existing_snapshot(siblings, base_name, time_suffix) ==
    IF time_suffix = "" THEN FirstMatch(siblings, base_name \o "_", TRUE, 1)
    ELSE FirstMatch(siblings, base_name \o time_suffix, FALSE, 1)

prompt_choice_as_typed(text) == IF Strip(text) = "" THEN "a" ELSE Strip(text)

\* input(...).strip().lower() or "a"
prompt_choice(text) == IF Lower(Strip(text)) = "" THEN "a" ELSE Lower(Strip(text))

\* what handle_collision returns once the prompt gave `choice`
chosen_action(choice) ==
    IF choice = "u" THEN "update" ELSE IF choice = "c" THEN "create" ELSE "abort"

handle_collision_update_wins(existing, a, typed) ==
    IF a.force_all \/ a.force_collision_update
    THEN [action |-> "update", prompted |-> FALSE]
    ELSE IF a.force_collision_new THEN [action |-> "create", prompted |-> FALSE]
    ELSE IF typed.eof THEN [action |-> "raise", prompted |-> TRUE]
    ELSE [action |-> chosen_action(prompt_choice(typed.text)), prompted |-> TRUE]

\* typed is what arrives at the prompt: a line of text, or end of input / an
\* interrupt (input() raises, action "raise")
handle_collision(existing, a, typed) ==
    LET force_all == a.force_all
        force_new == force_all \/ a.force_collision_new
        force_update == force_all \/ a.force_collision_update
    IN  IF force_new /\ ~force_update THEN [action |-> "create", prompted |-> FALSE]
        ELSE IF force_update /\ ~force_new THEN [action |-> "update", prompted |-> FALSE]
        ELSE IF force_new /\ force_update THEN [action |-> "create", prompted |-> FALSE]
        ELSE IF typed.eof THEN [action |-> "raise", prompted |-> TRUE]
        ELSE [action |-> chosen_action(prompt_choice(typed.text)), prompted |-> TRUE]

---------------------------------------------------------------------------
(* backup_to_server *)

\* f"{folder_name}_{suffix}"
base_remote_name(prj) == prj.folder_name \o "_" \o prj.suffix

\* exact_remote_dir, without the remote base
exact_name(prj) == base_remote_name(prj) \o prj.time_suffix

\* [s for s in name_siblings if s != f"{folder_name}_{suffix}"]
other_hash_dirs(name_siblings, prj) ==
    SelectNames(name_siblings, SeqToSet(name_siblings) \ {base_remote_name(prj)}, 1)

\* The outcome of "Determine target directory": the name under the remote base that
\* the transfer will write to (target_remote_dir without the base; "" when there is
\* none), the branch that chose it, the number of listings fetched, and the
\* candidates and decision of handle_collision when it was called.
Resolution(target, how, lists, candidates, decision) ==
    [target |-> target, how |-> how, lists |-> lists,
     collision |-> decision.action # "none", candidates |-> candidates,
     prompted |-> decision.prompted, action |-> decision.action]

NoDecision == [action |-> "none", prompted |-> FALSE]

collision_target_always_last(exact, others, decision) ==
    IF decision.action \in {"abort", "raise"}
    THEN Resolution("", decision.action, 2, others, decision)
    ELSE Resolution(Last(others), decision.action, 2, others, decision)

\* the branch taken on the action handle_collision returned
collision_target(exact, others, decision) ==
    IF decision.action \in {"abort", "raise"}
    THEN Resolution("", decision.action, 2, others, decision)
    ELSE IF decision.action = "update"
    THEN Resolution(Last(others), "update", 2, others, decision)
    ELSE Resolution(exact, "create", 2, others, decision)

\* snapshot_mode == "none": "handle traditional collisions"
resolve_without_snapshots(exact, others, a, typed) ==
    IF others # <<>>
    THEN collision_target(exact, others, handle_collision(others, a, typed))
    ELSE Resolution(exact, "new", 2, <<>>, NoDecision)

\* snapshot_mode != "none": "look for existing backup in current time period"
resolve_snapshot(exact, existing_snapshot) ==
    IF existing_snapshot # ""
    THEN Resolution(existing_snapshot, "snapshot", 1, <<>>, NoDecision)
    ELSE Resolution(exact, "new", 1, <<>>, NoDecision)

resolve_target_any_mode(srv, prj, a, typed) ==
    IF ssh_test_dir(srv, exact_name(prj))
    THEN Resolution(exact_name(prj), "exact", 0, <<>>, NoDecision)
    ELSE resolve_without_snapshots(
             exact_name(prj),
             other_hash_dirs(ssh_list_siblings(srv, prj.folder_name), prj), a, typed)

resolve_target(srv, prj, a, typed) ==
    IF ssh_test_dir(srv, exact_name(prj))
    THEN Resolution(exact_name(prj), "exact", 0, <<>>, NoDecision)
    ELSE IF prj.snapshot_mode # "none"
    THEN resolve_snapshot(exact_name(prj),
                          find_existing_snapshot(ssh_list_all(srv), base_remote_name(prj),
                                                 prj.time_suffix))
    ELSE resolve_without_snapshots(
             exact_name(prj),
             other_hash_dirs(ssh_list_siblings(srv, prj.folder_name), prj), a, typed)

\* subprocess.run(rsync_cmd): the exit status seen by backup_to_server for each
\* way the transfer can end (KeyboardInterrupt is turned into 130)
return_code(transfer) ==
    IF transfer = "ok" THEN 0 ELSE IF transfer = "interrupt" THEN 130 ELSE 23

\* the directories under the base after rsync ran towards <base>/<target>/:
\* a transfer that got as far as the remote side leaves the target directory
rsync_effect(dirs, target, transfer) ==
    IF transfer \in {"ok", "interrupt"} THEN dirs \cup {target} ELSE dirs

\* The record of one call of backup_to_server: what it returned (result; raised
\* when an exception left it instead), what it resolved, whether rsync was started,
\* and the directories under the remote base before (listing) and after.  This is
\* the call that returns 2 before anything was resolved.
early_return(server_name, srv, prj) ==
    [server |-> server_name, result |-> 2, raised |-> FALSE, base_checked |-> FALSE,
     resolved |-> FALSE, exact |-> exact_name(prj), target |-> "", how |-> "",
     lists |-> 0, collision |-> FALSE, candidates |-> <<>>, prompted |-> FALSE,
     typed |-> "", action |-> "none", rsync |-> FALSE, transfer |-> "",
     listing |-> srv.dirs, after |-> srv.dirs]

after_resolution_abort_ignored(early, r, typed, transfer) ==
    [early EXCEPT !.base_checked = TRUE, !.how = r.how, !.lists = r.lists,
                  !.collision = r.collision, !.candidates = r.candidates,
                  !.prompted = r.prompted, !.action = r.action,
                  !.resolved = TRUE, !.target = early.exact, !.rsync = TRUE,
                  !.transfer = transfer, !.result = return_code(transfer),
                  !.after = rsync_effect(early.listing, early.exact, transfer)]

\* the call once the target directory was determined as r
after_resolution(early, r, typed, transfer) ==
    LET decided == [early EXCEPT !.base_checked = TRUE, !.how = r.how,
                                 !.lists = r.lists, !.collision = r.collision,
                                 !.candidates = r.candidates,
                                 !.prompted = r.prompted,
                                 !.typed = IF r.prompted /\ ~typed.eof
                                           THEN typed.text ELSE "",
                                 !.action = r.action]
    IN  IF r.action = "raise" THEN [decided EXCEPT !.result = 1, !.raised = TRUE]
        ELSE IF r.action = "abort" THEN [decided EXCEPT !.result = 1]
        ELSE [decided EXCEPT !.resolved = TRUE, !.target = r.target,
                             !.rsync = TRUE, !.transfer = transfer,
                             !.result = return_code(transfer),
                             !.after = rsync_effect(early.listing, r.target, transfer)]

backup_to_server(server_name, srv, prj, a, typed, transfer) ==
    IF ~IntOk(srv.port)
    THEN [early_return(server_name, srv, prj) EXCEPT !.result = 1, !.raised = TRUE]
    ELSE IF ~srv.user_host
    THEN early_return(server_name, srv, prj)
    ELSE IF ~ssh_test_dir(srv, ".")
    THEN [early_return(server_name, srv, prj) EXCEPT !.base_checked = TRUE]
    ELSE after_resolution(early_return(server_name, srv, prj),
                          resolve_target(srv, prj, a, typed), typed, transfer)

---------------------------------------------------------------------------
(* main *)

stops_loop_never(result, a) == FALSE

\* the loop over selected_servers ends after a target whose cycle returned `result`
stops_loop(result, a) == result # 0 /\ ~a.force_all

\* the summary lines main prints after the loop
final_summary(ok, selected, succ, fail) ==
    IF ok THEN
        IF Len(selected) > 1 THEN <<[kind |-> "all", names |-> succ]>> ELSE <<>>
    ELSE IF Len(selected) > 1 THEN
        (IF succ # <<>> THEN <<[kind |-> "succeeded", names |-> succ]>> ELSE <<>>)
            \o (IF fail # <<>> THEN <<[kind |-> "failed", names |-> fail]>> ELSE <<>>)
    ELSE <<>>

exit_status_always_zero(ok) == 0

\* main's return value after the loop
exit_status(ok) == IF ok THEN 0 ELSE 1

\* what can be typed at the collision prompt
Answers == {"u", "c", "", "U", " c", "x"}
Typed == {[eof |-> FALSE, text |-> t] : t \in Answers} \cup {[eof |-> TRUE, text |-> ""]}

\* how a started transfer can end
Transfers == {"ok", "fail", "interrupt"}

\* args.snapshot_custom_hours or int(options.get("SNAPSHOT_CUSTOM_HOURS", "24")):
\* the option when it was given and is not 0, otherwise the setting as an integer
snapshot_custom_hours(c, opts) ==
    IF c.given /\ c.value # 0 THEN [ok |-> TRUE, value |-> c.value]
    ELSE ParseInt(opts.SNAPSHOT_CUSTOM_HOURS)

\* main from "Validate numeric settings" to the time suffix: how it ends ("ok",
\* "return" with status 2, or "raise" when int() raises ValueError) and the
\* interval it settled on
validate(c, opts, mode) ==
    IF ~ParseInt(opts.LARGE_FILE_MB).ok THEN [end |-> "return", hours |-> 0]
    ELSE IF ~snapshot_custom_hours(c, opts).ok THEN [end |-> "raise", hours |-> 0]
    ELSE IF snapshot_custom_hours(c, opts).value <= 0 THEN [end |-> "return", hours |-> 0]
    ELSE IF mode \notin Modes THEN [end |-> "return", hours |-> 0]
    ELSE [end |-> "ok", hours |-> snapshot_custom_hours(c, opts).value]

\* create_rsync_files: the include file is written only when there are include
\* patterns; when the exclude file cannot be written the include file is removed
\* and the process exits with status 2
create_rsync_files(has_includes, tmp) ==
    IF has_includes /\ tmp = "include fails"
    THEN [end |-> "exit", files |-> {}, include_path |-> "", exclude_path |-> ""]
    ELSE IF tmp = "exclude fails"
    THEN [end |-> "exit", files |-> {}, include_path |-> "", exclude_path |-> ""]
    ELSE [end |-> "ok",
          files |-> IF has_includes THEN {"include", "exclude"} ELSE {"exclude"},
          include_path |-> IF has_includes THEN "include" ELSE "",
          exclude_path |-> "exclude"]

cleanup_temp_files_skipped(files, paths) == files

\* os.unlink of every path that is not None
cleanup_temp_files(files, paths) == files \ paths

\* main ends before the loop with exit status status
EndsEarly(status) ==
    /\ pc' = "done"
    /\ rc' = status
    /\ scanned' = FALSE
    /\ created' = 0
    /\ suffix_calls' = <<>>
    /\ UNCHANGED <<project_info, temp_files>>

\* main from the time suffix to the loop: get_time_suffix, the large-file walk,
\* create_rsync_files, project_info
Prepare(hours, now, made) ==
    /\ suffix_calls' = <<hours>>
    /\ scanned' = TRUE
    /\ created' = 1
    /\ temp_files' = temp_files \cup made.files
    /\ project_info' =
           [project_info EXCEPT !.custom_hours = hours,
                                !.time_suffix =
                                    get_time_suffix(project_info.snapshot_mode, hours, now),
                                !.include_path = made.include_path,
                                !.exclude_path = made.exclude_path]
    /\ pc' = IF made.end = "ok" THEN "loop" ELSE "done"
    /\ rc' = IF made.end = "ok" THEN -1 ELSE 2

\* main up to the loop: the settings are validated, the time suffix is computed
\* from the clock, the tree is walked and the scratch files are written
Start ==
    /\ pc \in {"idle", "done"}
    /\ runs_left > 0
    /\ \E t \in tick..MaxTick :
        /\ tick' = t
        /\ IF validate(cli, options, project_info.snapshot_mode).end = "return"
           THEN EndsEarly(2)
           ELSE IF validate(cli, options, project_info.snapshot_mode).end = "raise"
           THEN EndsEarly(1)
           ELSE Prepare(validate(cli, options, project_info.snapshot_mode).hours, Now(t),
                        create_rsync_files(options.include_patterns, options.tmp))
    /\ runs_left' = runs_left - 1
    /\ prev' = cycles
    /\ cycles' = <<>>
    /\ successes' = <<>>
    /\ failures' = <<>>
    /\ overall_success' = TRUE
    /\ summary' = <<>>
    /\ idx' = 1
    /\ UNCHANGED <<args, selected_servers, remote, options, cli, walk, probe>>

\* The loop body once backup_to_server ended as the record c.  An exception leaves
\* main through the finally clause (exit status 1); after the last iteration, or a
\* break, main prints the summary and returns.
LoopBody(server_name, c) ==
    /\ cycles' = Append(cycles, c)
    /\ remote' = [remote EXCEPT ![server_name].dirs = c.after]
    /\ successes' = IF ~c.raised /\ c.result = 0 THEN Append(successes, server_name)
                    ELSE successes
    /\ failures' = IF ~c.raised /\ c.result # 0 THEN Append(failures, server_name)
                   ELSE failures
    /\ overall_success' = IF c.raised THEN overall_success
                          ELSE overall_success /\ c.result = 0
    /\ temp_files' =
           IF c.raised \/ stops_loop(c.result, args) \/ idx = Len(selected_servers)
           THEN cleanup_temp_files(temp_files, {project_info.include_path,
                                                project_info.exclude_path})
           ELSE temp_files
    /\ IF c.raised THEN
           /\ pc' = "done"
           /\ idx' = idx
           /\ rc' = 1
           /\ summary' = <<>>
       ELSE IF stops_loop(c.result, args) \/ idx = Len(selected_servers) THEN
           /\ pc' = "done"
           /\ idx' = idx
           /\ rc' = exit_status(overall_success')
           /\ summary' = final_summary(overall_success', selected_servers,
                                       successes', failures')
       ELSE
           /\ pc' = "loop"
           /\ idx' = idx + 1
           /\ rc' = rc
           /\ summary' = summary

\* one iteration of the loop over selected_servers
Backup ==
    /\ pc = "loop"
    /\ \E typed \in Typed, transfer \in Transfers :
        LoopBody(selected_servers[idx],
                 backup_to_server(selected_servers[idx], remote[selected_servers[idx]],
                                  project_info, args, typed, transfer))
    /\ UNCHANGED <<args, project_info, selected_servers, tick, prev, runs_left,
                   options, cli, scanned, created, suffix_calls, walk, probe>>

Next == Start \/ Backup

---------------------------------------------------------------------------
(* The large-file walk: fnmatch, matches_any, iter_large_files *)

\* s without its first character
Rest(s) == SubSeq(s, 2, Len(s))

\* fnmatch.fnmatch(name, pat) on POSIX for patterns of literals, * and ?
\* (* matches any run of characters, "/" included)
RECURSIVE fnmatch(_, _)
fnmatch(name, pat) ==
    IF pat = "" THEN name = ""
    ELSE IF CharAt(pat, 1) = "*"
    THEN fnmatch(name, Rest(pat)) \/ (name # "" /\ fnmatch(Rest(name), pat))
    ELSE IF name = "" THEN FALSE
    ELSE /\ CharAt(pat, 1) = "?" \/ CharAt(pat, 1) = CharAt(name, 1)
         /\ fnmatch(Rest(name), Rest(pat))

matches_any(patterns, relpath) ==
    \E pat \in patterns : fnmatch(relpath, pat) \/ fnmatch("/" \o relpath, pat)

\* the local function is_included of iter_large_files
is_included(include_patterns, rel) ==
    \E pat \in include_patterns : fnmatch(rel, pat) \/ fnmatch("/" \o rel, pat)

\* the DEFAULT_EXCLUDES that match something in the project tree below
DEFAULT_EXCLUDES == {"/build/", "/*.log"}

\* the project tree as os.walk reports it: directory -> (dirnames, filenames)
Tree ==
    [d \in {"", "build", "src"} |->
        IF d = "" THEN [dirnames |-> <<"build", "src">>, filenames |-> <<"notes.txt">>]
        ELSE IF d = "build"
        THEN [dirnames |-> <<>>, filenames |-> <<"keep.txt", "other.txt">>]
        ELSE [dirnames |-> <<>>, filenames |-> <<"app.log", "main.py">>]]

\* os.path.join(rel_dir, name) if rel_dir else name
JoinRel(rel_dir, name) == IF rel_dir = "" THEN name ELSE rel_dir \o "/" \o name

\* the entries of names, joined to rel_dir
Joined(rel_dir, names) == [i \in 1..Len(names) |-> JoinRel(rel_dir, names[i])]

TreeFiles == UNION {SeqToSet(Joined(d, Tree[d].filenames)) : d \in DOMAIN Tree}

\* "Prune excluded dirs unless re-included": the subdirectories os.walk descends to
kept_dirs(rel_dir, excludes, includes) ==
    SelectNames(Joined(rel_dir, Tree[rel_dir].dirnames),
                {rel \in SeqToSet(Joined(rel_dir, Tree[rel_dir].dirnames)) :
                    ~(matches_any(excludes, rel \o "/") /\ ~is_included(includes, rel))},
                1)

\* the files of rel_dir that reach the size test
kept_files(rel_dir, excludes, includes) ==
    {rel \in SeqToSet(Joined(rel_dir, Tree[rel_dir].filenames)) :
        ~(matches_any(excludes, rel) /\ ~is_included(includes, rel))}

\* one step of the generator: os.walk hands out the next directory
WalkDir ==
    /\ walk.at = "walking"
    /\ walk' =
           [walk EXCEPT
               !.pending = kept_dirs(Head(walk.pending), walk.excludes, walk.includes)
                               \o Tail(walk.pending),
               !.visited = walk.visited
                               \cup kept_files(Head(walk.pending), walk.excludes,
                                               walk.includes),
               !.yielded = walk.yielded
                               \cup (kept_files(Head(walk.pending), walk.excludes,
                                                walk.includes) \cap walk.large),
               !.at = IF kept_dirs(Head(walk.pending), walk.excludes, walk.includes)
                             \o Tail(walk.pending) = <<>>
                      THEN "done" ELSE "walking"]
    /\ UNCHANGED <<args, project_info, selected_servers, remote, tick, pc, idx,
                   successes, failures, overall_success, cycles, prev, summary, rc,
                   runs_left, options, cli, scanned, temp_files, created,
                   suffix_calls, probe>>

NextWalk == WalkDir

---------------------------------------------------------------------------
(* get_time_suffix on two instants *)

\* datetime.now() with the POSIX timestamp t, as far as mode custom reads it
Instant(t) == [timestamp |-> t]

ProbeSuffix ==
    /\ probe.at = "ready"
    /\ probe' = [probe EXCEPT
                    !.at = "done",
                    !.s1 = get_time_suffix("custom", probe.n, Instant(probe.t1)),
                    !.s2 = get_time_suffix("custom", probe.n, Instant(probe.t2))]
    /\ UNCHANGED <<args, project_info, selected_servers, remote, tick, pc, idx,
                   successes, failures, overall_success, cycles, prev, summary, rc,
                   runs_left, options, cli, scanned, temp_files, created,
                   suffix_calls, walk>>

NextSuffix == ProbeSuffix

---------------------------------------------------------------------------
(* Initial states *)

Flags == [force_all : BOOLEAN, force_collision_new : BOOLEAN,
          force_collision_update : BOOLEAN]

\* the project: folder "app" at a path whose fingerprint is a1b2c3d4
Projects(modes) ==
    [folder_name : {"app"}, suffix : {"a1b2c3d4"}, snapshot_mode : modes,
     custom_hours : {6}, time_suffix : {""}, include_path : {""}, exclude_path : {""}]

\* the names this project's backups can carry at the modelled instants
BucketNames ==
    {"app_a1b2c3d4" \o get_time_suffix(m, 6, Now(k)) : m \in Modes, k \in 0..MaxTick}

\* backups of other projects: folder "app" at another path, and folder "app_X"
ForeignNames == {"app_deadbeef", "app_X_0badf00d"}

ServerName(i) == IF i = 1 THEN "main" ELSE "remote" \o Str(i)

InitCommon ==
    /\ args \in Flags
    /\ tick = 0
    /\ pc = "idle"
    /\ idx = 1
    /\ successes = <<>>
    /\ failures = <<>>
    /\ overall_success = TRUE
    /\ cycles = <<>>
    /\ prev = <<>>
    /\ summary = <<>>
    /\ rc = -1
    /\ scanned = FALSE
    /\ temp_files = {}
    /\ created = 0
    /\ suffix_calls = <<>>

\* the walk and the probe at rest
NoWalk == [at |-> "off"]
NoProbe == [at |-> "off"]

\* valid settings: an interval of six hours, no include patterns
PlainOptions ==
    [LARGE_FILE_MB |-> "200", SNAPSHOT_CUSTOM_HOURS |-> "6",
     include_patterns |-> FALSE, tmp |-> "ok"]

\* --snapshot-custom-hours not given
NotGiven == [given |-> FALSE, value |-> 0]

InitPlain ==
    /\ options = PlainOptions
    /\ cli = NotGiven
    /\ walk = NoWalk
    /\ probe = NoProbe

\* servers whose configuration or base directory is at fault: no user/host in the
\* section, and a base whose entries cannot be listed
FaultyServers ==
    {[dirs |-> {"app_deadbeef"}, base_ok |-> TRUE, collation |-> "C", port |-> "22",
      user_host |-> FALSE, readable |-> TRUE],
     [dirs |-> {"app_deadbeef"}, base_ok |-> TRUE, collation |-> "C", port |-> "22",
      user_host |-> TRUE, readable |-> FALSE]}

\* one invocation against one to MaxTargets servers
Init ==
    /\ InitCommon
    /\ project_info \in Projects({"none", "daily"})
    /\ \E n \in 1..MaxTargets : selected_servers = [i \in 1..n |-> ServerName(i)]
    /\ remote \in [SeqToSet(selected_servers) ->
                     [dirs : {{}, {"app_deadbeef"}}, base_ok : BOOLEAN,
                      collation : {"C"}, port : {"22", "abc"},
                      user_host : {TRUE}, readable : {TRUE}] \cup FaultyServers]
    /\ runs_left = 1
    /\ options \in {PlainOptions,
                     [PlainOptions EXCEPT !.include_patterns = TRUE],
                     [PlainOptions EXCEPT !.include_patterns = TRUE,
                                          !.tmp = "exclude fails"]}
    /\ cli = NotGiven
    /\ walk = NoWalk
    /\ probe = NoProbe

\* one server holding up to MaxDirs directories, listed in either collation
ResolveServers(collations) ==
    [dirs : {S \in SUBSET (BucketNames \cup ForeignNames) : Cardinality(S) <= MaxDirs},
     base_ok : {TRUE}, collation : collations, port : {"22"},
     user_host : {TRUE}, readable : {TRUE}]

\* one invocation against one server
InitResolve ==
    /\ InitCommon
    /\ InitPlain
    /\ project_info \in Projects(Modes)
    /\ selected_servers = <<"main">>
    /\ remote \in [{"main"} -> ResolveServers({"C", "folded"})]
    /\ runs_left = 1

\* MaxRuns invocations of the same command line against one server
InitRerun ==
    /\ InitCommon
    /\ InitPlain
    /\ project_info \in Projects(Modes)
    /\ selected_servers = <<"main">>
    /\ remote \in [{"main"} -> ResolveServers({"C"})]
    /\ runs_left = MaxRuns

\* the settings main validates: LARGE_FILE_MB and SNAPSHOT_CUSTOM_HOURS as the
\* config file or the environment give them
ConfigOptions ==
    [LARGE_FILE_MB : {"200", "x"}, SNAPSHOT_CUSTOM_HOURS : {"24", "0", "-3", "abc"},
     include_patterns : {FALSE}, tmp : {"ok"}]

\* --snapshot-custom-hours: not given, 0, -2, 6
ConfigCli == {NotGiven} \cup [given : {TRUE}, value : {0, -2, 6}]

\* a server that answers, one without user/host, one with a port that is no number
ConfigServers ==
    {[dirs |-> {}, base_ok |-> TRUE, collation |-> "C", port |-> "22",
      user_host |-> TRUE, readable |-> TRUE],
     [dirs |-> {}, base_ok |-> TRUE, collation |-> "C", port |-> "22",
      user_host |-> FALSE, readable |-> TRUE],
     [dirs |-> {}, base_ok |-> TRUE, collation |-> "C", port |-> "abc",
      user_host |-> TRUE, readable |-> TRUE]}

\* one invocation with settings that may be invalid
InitConfig ==
    /\ InitCommon
    /\ args \in {a \in Flags : ~a.force_collision_new /\ ~a.force_collision_update}
    /\ project_info \in Projects({"custom", "daily", "bogus"})
    /\ \E n \in 1..MaxTargets : selected_servers = [i \in 1..n |-> ServerName(i)]
    /\ remote \in [SeqToSet(selected_servers) -> ConfigServers]
    /\ runs_left = 1
    /\ options \in ConfigOptions
    /\ cli \in ConfigCli
    /\ walk = NoWalk
    /\ probe = NoProbe

\* main is not running
InitAtRest ==
    /\ InitCommon
    /\ args = [force_all |-> FALSE, force_collision_new |-> FALSE,
               force_collision_update |-> FALSE]
    /\ project_info \in Projects({"none"})
    /\ selected_servers = <<>>
    /\ remote = <<>>
    /\ runs_left = 0
    /\ options = PlainOptions
    /\ cli = NotGiven

\* patterns a .backupignore can add to the excludes, and its ! lines
ExcludePool == {"/build/other.txt", "*.txt", "/src/"}
IncludePool == {"/build/keep.txt", "/build", "*.py"}

\* the walk about to start at the root, for every choice of patterns and of the
\* files that are at least min_bytes large
InitWalk ==
    /\ InitAtRest
    /\ probe = NoProbe
    /\ walk \in [at : {"walking"}, excludes : {DEFAULT_EXCLUDES \cup E : E \in SUBSET ExcludePool},
                  includes : SUBSET IncludePool, large : SUBSET {"build/keep.txt", "build/other.txt", "src/main.py"},
                  pending : {<<"">>}, visited : {{}}, yielded : {{}}]

\* seconds at Now(0), and the instants probed: whole hours after it, on the hour,
\* one second later and one second before the next hour
ProbeBase == 482468 * 3600
ProbeInstants ==
    {ProbeBase + h * 3600 + sec : h \in 0..MaxProbeHours, sec \in {0, 1, 3599}}

InitSuffix ==
    /\ InitAtRest
    /\ walk = NoWalk
    /\ probe \in [at : {"ready"}, n : 1..MaxInterval, t1 : ProbeInstants,
                   t2 : ProbeInstants, s1 : {""}, s2 : {""}]

Spec == Init /\ [][Next]_vars

SpecWalk == InitWalk /\ [][NextWalk]_vars

SpecSuffix == InitSuffix /\ [][NextSuffix]_vars

SpecResolve == InitResolve /\ [][Next]_vars

SpecRerun == InitRerun /\ [][Next]_vars

SpecConfig == InitConfig /\ [][Next]_vars

---------------------------------------------------------------------------
(* Properties *)

\* the cycles of the current invocation
Cycle(i) == cycles[i]
Attempts == 1..Len(cycles)

force_new_set == args.force_all \/ args.force_collision_new
force_update_set == args.force_all \/ args.force_collision_update

\* d is a backup of this project: it carries the project's name and fingerprint
OwnName(d) == StartsWith(d, base_remote_name(project_info))

\* d shares the project's name and carries another fingerprint
ForeignName(d) == StartsWith(d, project_info.folder_name \o "_") /\ ~OwnName(d)

\* C1: whenever the exact remote directory exists on the remote, the target of the
\* cycle is that directory, found by the exact check, and handle_collision is not
\* called and nothing is asked, in every snapshot mode and with every combination
\* of the force flags.
C1_ExactMatchWins ==
    \A i \in Attempts :
        (Cycle(i).exact \in Cycle(i).listing /\ Cycle(i).how # "")
        => /\ Cycle(i).resolved
           /\ Cycle(i).target = Cycle(i).exact
           /\ Cycle(i).how = "exact"
           /\ ~Cycle(i).collision
           /\ ~Cycle(i).prompted

\* a cycle in mode none, nothing forced, whose exact directory exists beside a
\* directory with a foreign fingerprint
C1_Witness ==
    \E i \in Attempts :
        /\ Cycle(i).exact \in Cycle(i).listing
        /\ \E d \in Cycle(i).listing : ForeignName(d)
        /\ project_info.snapshot_mode = "none"
        /\ ~force_new_set /\ ~force_update_set
        /\ Cycle(i).how = "exact"
        /\ Cycle(i).rsync

SiblingsOf(i) ==
    {d \in Cycle(i).listing : /\ StartsWith(d, project_info.folder_name \o "_")
                              /\ d # base_remote_name(project_info)}

C3_Case(i) ==
    /\ Cycle(i).how # ""
    /\ project_info.snapshot_mode # "none"
    /\ Cycle(i).exact \notin Cycle(i).listing
    /\ \E d \in Cycle(i).listing : OwnName(d)

\* C3 as claimed: in that case the newly minted exact name is the target, for
\* every mode and every pair of distinct buckets.
C3_Original ==
    \A i \in Attempts :
        C3_Case(i) => Cycle(i).target = Cycle(i).exact /\ ~Cycle(i).collision

\* the listed names that start with the exact name
Extensions(i) == {d \in Cycle(i).listing : StartsWith(d, Cycle(i).exact)}

\* C3 amended: in that case handle_collision is never called; the target is the
\* newly minted exact name provided no listed name starts with the exact name,
\* and otherwise the first listed name that starts with it.
C3_NewBucketUnlessExtended ==
    \A i \in Attempts :
        C3_Case(i) =>
            /\ ~Cycle(i).collision
            /\ ~Cycle(i).prompted
            /\ Cycle(i).resolved
            /\ IF Extensions(i) = {}
               THEN Cycle(i).target = Cycle(i).exact /\ Cycle(i).how = "new"
               ELSE /\ Cycle(i).how = "snapshot"
                    /\ Cycle(i).target =
                           SortBy(remote[Cycle(i).server].collation, Extensions(i))[1]

\* daily mode on 2025-01-15 with the bucket of 2025-01-14 listed: a new name
C3_Witness ==
    \E i \in Attempts :
        /\ C3_Case(i)
        /\ project_info.snapshot_mode = "daily"
        /\ Cycle(i).exact = "app_a1b2c3d4_2025-01-15"
        /\ "app_a1b2c3d4_2025-01-14" \in Cycle(i).listing
        /\ Cycle(i).target = Cycle(i).exact
        /\ Cycle(i).how = "new"

\* the case of C4: the previous invocation resolved a name, this invocation is in
\* the same time bucket and its listing holds that name
C4_Case ==
    /\ prev # <<>>
    /\ cycles # <<>>
    /\ prev[1].resolved
    /\ Cycle(1).how # ""
    /\ Cycle(1).exact = prev[1].exact
    /\ prev[1].target \in Cycle(1).listing

\* C4 as claimed: the second invocation returns the same name without calling
\* handle_collision, whatever path the first one took.
C4_Original ==
    C4_Case => /\ Cycle(1).target = prev[1].target
               /\ ~Cycle(1).collision
               /\ ~Cycle(1).prompted

\* C4 amended: the second invocation returns the same name without calling
\* handle_collision unless the first one updated a collision candidate; after an
\* update handle_collision is called again with the same candidates, and the same
\* name is returned exactly when the decision is update again.
C4_RerunSameName ==
    C4_Case =>
        IF prev[1].how # "update"
        THEN /\ Cycle(1).target = prev[1].target
             /\ Cycle(1).resolved
             /\ ~Cycle(1).collision
             /\ ~Cycle(1).prompted
        ELSE /\ Cycle(1).collision
             /\ Cycle(1).candidates = prev[1].candidates
             /\ (Cycle(1).action = "update" <=> Cycle(1).target = prev[1].target)

\* a second invocation after one that created the exact directory on a collision
C4_Witness ==
    /\ C4_Case
    /\ prev[1].how = "create"
    /\ Cycle(1).how = "exact"
    /\ Cycle(1).target = prev[1].target

\* C5: with both force flags asserted (--force-all asserts both) handle_collision
\* returns create without asking and the target is the exact name, not one of the
\* candidates; no target carries a foreign fingerprint.
C5_BothForcedCreates ==
    \A i \in Attempts :
        (force_new_set /\ force_update_set) =>
            /\ ~Cycle(i).prompted
            /\ Cycle(i).collision =>
                   /\ Cycle(i).action = "create"
                   /\ Cycle(i).target = Cycle(i).exact
                   /\ Cycle(i).target \notin SeqToSet(Cycle(i).candidates)
            /\ Cycle(i).resolved => OwnName(Cycle(i).target)

\* --force-all alone, and a collision with a foreign fingerprint
C5_Witness ==
    \E i \in Attempts :
        /\ args.force_all /\ ~args.force_collision_new /\ ~args.force_collision_update
        /\ Cycle(i).collision
        /\ \E d \in SeqToSet(Cycle(i).candidates) : ForeignName(d)
        /\ Cycle(i).action = "create"
        /\ Cycle(i).rsync

\* C6 as claimed: with only the forced-update flag a collision is decided update
\* without asking, and the target is the last candidate of the sorted candidate
\* list, whatever order the remote listed the names in.
C6_Original ==
    \A i \in Attempts :
        (force_update_set /\ ~force_new_set /\ Cycle(i).collision) =>
            /\ Cycle(i).action = "update"
            /\ ~Cycle(i).prompted
            /\ Cycle(i).target = Last(SortBy("C", SeqToSet(Cycle(i).candidates)))

\* the answer as input(...).strip().lower() reads it
Normalized(text) == Lower(Strip(text))

C8_AbortLeavesRemote ==
    \A i \in Attempts :
        Cycle(i).action = "abort" =>
            /\ ~Cycle(i).rsync
            /\ ~Cycle(i).resolved
            /\ Cycle(i).target = ""
            /\ Cycle(i).result = 1
            /\ Cycle(i).after = Cycle(i).listing
            /\ (i = Len(cycles) => remote[Cycle(i).server].dirs = Cycle(i).listing)

\* an aborted collision
C8_Witness ==
    \E i \in Attempts :
        /\ Cycle(i).action = "abort"
        /\ Cycle(i).prompted
        /\ Cycle(i).candidates # <<>>
        /\ pc = "done"

\* C9: the targets attempted are the first targets of the selection, one cycle
\* each and in selection order; without --force-all every cycle before the last
\* one returned 0, and the loop is over exactly when every selected target was
\* attempted or the last cycle did not return 0.
C9_StopsAtFirstFailure ==
    /\ Len(cycles) <= Len(selected_servers)
    /\ \A i \in Attempts : Cycle(i).server = selected_servers[i]
    /\ ~args.force_all =>
           /\ \A i \in Attempts :
                  i < Len(cycles) => Cycle(i).result = 0 /\ ~Cycle(i).raised
           /\ (pc = "done" /\ cycles # <<>>) =>
                  \/ Len(cycles) = Len(selected_servers)
                  \/ Last(cycles).result # 0
                  \/ Last(cycles).raised
           /\ (pc = "loop" /\ cycles # <<>>) =>
                  Last(cycles).result = 0 /\ ~Last(cycles).raised

\* two targets selected, the first cycle fails, the second target is not attempted
C9_Witness ==
    /\ pc = "done"
    /\ ~args.force_all
    /\ Len(selected_servers) = 2
    /\ Len(cycles) = 1
    /\ Cycle(1).result # 0
    /\ ~Cycle(1).raised
    /\ failures = <<selected_servers[1]>>
    /\ rc = 1

\* the summary lines name exactly the targets of succ and of fail
Enumerates(lines, succ, fail) ==
    /\ \A n \in SeqToSet(succ) :
           \E k \in DOMAIN lines : /\ lines[k].kind \in {"all", "succeeded"}
                                   /\ n \in SeqToSet(lines[k].names)
    /\ \A n \in SeqToSet(fail) :
           \E k \in DOMAIN lines : /\ lines[k].kind = "failed"
                                   /\ n \in SeqToSet(lines[k].names)

\* C10 as claimed: with --force-all, when main is over every selected target was
\* attempted exactly once, successes and failures are disjoint and together are
\* the selected targets, and the final summary names both.
C10_Original ==
    (args.force_all /\ pc = "done" /\ cycles # <<>>) =>
        /\ Len(cycles) = Len(selected_servers)
        /\ \A i \in Attempts : Cycle(i).server = selected_servers[i]
        /\ SeqToSet(successes) \cap SeqToSet(failures) = {}
        /\ SeqToSet(successes) \cup SeqToSet(failures) = SeqToSet(selected_servers)
        /\ Len(selected_servers) > 1 => Enumerates(summary, successes, failures)

\* the scratch files main holds while the loop runs
HeldFiles == {project_info.include_path, project_info.exclude_path} \ {""}

\* C11: create_rsync_files is called at most once per invocation, and exactly once
\* before any target's cycle; while the loop runs the files it wrote exist, and
\* whenever main is over, whether every target succeeded, a target failed, a
\* collision was aborted or an exception left a cycle, no scratch file exists.
C11_ScratchFilesReleased ==
    /\ created <= 1
    /\ cycles # <<>> => created = 1
    /\ pc = "loop" => temp_files = HeldFiles /\ "exclude" \in temp_files
    /\ pc \in {"idle", "done"} => temp_files = {}

\* both files were written, the first target succeeded and an exception left the
\* second target's cycle
C11_Witness ==
    /\ pc = "done"
    /\ created = 1
    /\ HeldFiles = {"include", "exclude"}
    /\ Len(cycles) = 2
    /\ Cycle(1).result = 0
    /\ Cycle(2).raised
    /\ temp_files = {}

\* C12 as claimed: a transfer that was interrupted is not recorded as a success,
\* returns a result of its own, and the end of the run tells it from an ordinary
\* failure: by the exit status or by a summary line of its own.
C12_Original ==
    \A i \in Attempts :
        (Cycle(i).rsync /\ Cycle(i).transfer = "interrupt") =>
            /\ Cycle(i).server \notin SeqToSet(successes)
            /\ Cycle(i).result = 130
            /\ pc = "done" =>
                   \/ rc # exit_status(FALSE)
                   \/ \E k \in DOMAIN summary :
                          /\ summary[k].kind \notin {"all", "succeeded", "failed"}
                          /\ Cycle(i).server \in SeqToSet(summary[k].names)

\* a cycle that ended on a configuration error of its server: no user or host, or
\* a port that is no number
ConfigErrorCycle(i) ==
    /\ ~Cycle(i).base_checked
    /\ Cycle(i).result = 2 \/ Cycle(i).raised

\* C13 as claimed: a configuration error ends the run with a non-zero status
\* before the project tree was walked and before any remote was contacted.
C13_Original ==
    /\ (pc = "done" /\ cycles = <<>>) => ~scanned /\ rc \notin {0, -1}
    /\ \A i \in Attempts :
           ConfigErrorCycle(i) =>
               /\ ~scanned
               /\ \A j \in 1..(i - 1) : ~Cycle(j).base_checked
               /\ pc = "done" /\ rc # 0

\* the interval supplied by the source that decides it is zero or negative
NonPositiveSupplied ==
    \/ cli.given /\ cli.value <= 0
    \/ /\ ~cli.given
       /\ ParseInt(options.SNAPSHOT_CUSTOM_HOURS).ok
       /\ ParseInt(options.SNAPSHOT_CUSTOM_HOURS).value <= 0

\* C14 as claimed: get_time_suffix is never called with an interval <= 0, and an
\* interval of zero or less supplied on the command line, in the config file or
\* in the environment ends the run with a non-zero status before the call.
C14_Original ==
    /\ \A k \in DOMAIN suffix_calls : suffix_calls[k] > 0
    /\ (pc # "idle" /\ NonPositiveSupplied) =>
           pc = "done" /\ rc # 0 /\ suffix_calls = <<>>

\* C15 as claimed: a cycle in which a listing was asked of a base that cannot be
\* listed ends non-zero, with no directory resolved and no transfer.
C15_Original ==
    \A i \in Attempts :
        (~remote[Cycle(i).server].readable /\ Cycle(i).lists > 0) =>
            /\ Cycle(i).result # 0
            /\ ~Cycle(i).resolved
            /\ ~Cycle(i).rsync

\* C16 as claimed: a target whose collision was aborted is not in failures and is
\* named in no "Failed:" line.
C16_Original ==
    \A i \in Attempts :
        Cycle(i).action = "abort" =>
            /\ Cycle(i).server \notin SeqToSet(failures)
            /\ \A k \in DOMAIN summary :
                   summary[k].kind = "failed" =>
                       Cycle(i).server \notin SeqToSet(summary[k].names)

\* the target's section is complete but its base directory does not answer OK
BaseMissing(i) ==
    /\ IntOk(remote[Cycle(i).server].port)
    /\ remote[Cycle(i).server].user_host
    /\ ~remote[Cycle(i).server].base_ok

\* C19: when the base check of a target is false its cycle returns 2 right after
\* it: no exact-directory check, no listing, no collision handling, no transfer,
\* and the remote is as it was.
C19_BaseMissingStops ==
    \A i \in Attempts :
        BaseMissing(i) =>
            /\ Cycle(i).result = 2
            /\ ~Cycle(i).raised
            /\ Cycle(i).base_checked
            /\ Cycle(i).how = ""
            /\ Cycle(i).lists = 0
            /\ ~Cycle(i).collision
            /\ ~Cycle(i).prompted
            /\ ~Cycle(i).resolved
            /\ ~Cycle(i).rsync
            /\ Cycle(i).after = Cycle(i).listing

\* a base that is missing while a sibling name is recorded for it, mode none
C19_Witness ==
    \E i \in Attempts :
        /\ BaseMissing(i)
        /\ Cycle(i).listing # {}
        /\ project_info.snapshot_mode = "none"
        /\ Cycle(i).result = 2
        /\ pc = "done"

\* C20 as claimed: in every snapshot mode at most one listing is fetched in a
\* target's cycle.
C20_Original == \A i \in Attempts : Cycle(i).lists <= 1

\* C17 as claimed: when the walk is over, every file whose path matches an
\* include pattern reached the size test, and was yielded when it is large, even
\* under a directory that an exclude pattern matches; and with /build/ excluded
\* and only /build/keep.txt re-included, build/other.txt did not.
C17_Original ==
    walk.at = "done" =>
        /\ \A f \in TreeFiles :
               is_included(walk.includes, f) =>
                   /\ f \in walk.visited
                   /\ f \in walk.large => f \in walk.yielded
        /\ (walk.excludes = {"/build/", "/*.log"} /\ walk.includes = {"/build/keep.txt"})
               => "build/other.txt" \notin walk.visited

\* the start of the n-hour window, aligned to the epoch, that holds second t
WindowStart(t, n) == t - (t % (n * 3600))

\* the number a suffix _I<k> carries
IntervalNumber(sfx) == ParseInt(SubSeq(sfx, 3, Len(sfx))).value

\* C18: in mode custom with an interval of n > 0 hours, the suffixes of two
\* instants are "_I" followed by a number; they are equal exactly when the
\* instants lie in the same n-hour window aligned to the epoch, the number never
\* decreases with time, and it is larger in a later window.
C18_CustomWindows ==
    probe.at = "done" =>
        /\ StartsWith(probe.s1, "_I") /\ StartsWith(probe.s2, "_I")
        /\ ParseInt(SubSeq(probe.s1, 3, Len(probe.s1))).ok
        /\ IntervalNumber(probe.s1) * probe.n * 3600 = WindowStart(probe.t1, probe.n)
        /\ (probe.s1 = probe.s2) <=>
               (WindowStart(probe.t1, probe.n) = WindowStart(probe.t2, probe.n))
        /\ probe.t1 <= probe.t2 => IntervalNumber(probe.s1) <= IntervalNumber(probe.s2)
        /\ WindowStart(probe.t1, probe.n) < WindowStart(probe.t2, probe.n)
               => IntervalNumber(probe.s1) < IntervalNumber(probe.s2)

\* n = 6: two instants one hour apart in one window, with the same suffix
C18_Witness ==
    /\ probe.at = "done"
    /\ probe.n = 6
    /\ probe.t2 = probe.t1 + 3600
    /\ WindowStart(probe.t1, 6) = WindowStart(probe.t2, 6)
    /\ probe.s1 = probe.s2
    /\ probe.s1 = "_I80411"

\* C21: whenever a cycle reaches the transfer, its target is the project's exact
\* name or a name that was listed under the remote base, and a listed name that
\* does not start with folder_name_fingerprint is the target only when the
\* collision decision was update.
C21_TargetIsOwnOrListed ==
    \A i \in Attempts :
        Cycle(i).rsync =>
            /\ Cycle(i).target # ""
            /\ Cycle(i).target = Cycle(i).exact \/ Cycle(i).target \in Cycle(i).listing
            /\ ~OwnName(Cycle(i).target) =>
                   /\ Cycle(i).target \in Cycle(i).listing
                   /\ Cycle(i).collision
                   /\ Cycle(i).action = "update"
                   /\ project_info.snapshot_mode = "none"

\* a transfer into a listed directory of another fingerprint, after an update
C21_Witness ==
    \E i \in Attempts :
        /\ Cycle(i).rsync
        /\ Cycle(i).target \in Cycle(i).listing
        /\ ForeignName(Cycle(i).target)
        /\ Cycle(i).target # Cycle(i).exact
        /\ Cycle(i).action = "update"

\* every selected target was attempted and its cycle returned 0
AllReturnedZero ==
    /\ Len(cycles) = Len(selected_servers)
    /\ \A i \in Attempts : ~Cycle(i).raised /\ Cycle(i).result = 0

\* C22: once the loop was entered, main ends with status 0 exactly when every
\* selected target was attempted and its cycle returned 0, and with a non-zero
\* status in every other case; a target is in successes only when its cycle ran
\* rsync and rsync exited with status 0.
C22_ExitStatus ==
    /\ (pc = "done" /\ cycles # <<>>) =>
           /\ rc = 0 <=> AllReturnedZero
           /\ ~AllReturnedZero => rc > 0
    /\ \A n \in SeqToSet(successes) :
           \E i \in Attempts :
               /\ Cycle(i).server = n
               /\ Cycle(i).rsync
               /\ Cycle(i).transfer = "ok"
               /\ Cycle(i).result = 0

\* --force-all, the first of two targets fails, the second succeeds: status 1
C22_Witness ==
    /\ pc = "done"
    /\ args.force_all
    /\ Len(cycles) = 2
    /\ Cycle(1).result # 0
    /\ Cycle(2).result = 0
    /\ successes = <<selected_servers[2]>>
    /\ failures = <<selected_servers[1]>>
    /\ rc = 1

====
